---- MODULE Spec2Model ----
(***************************************************************************)
(* Model of src/app/app.py: the SELECT * locator (SELECT_STAR_RE,          *)
(* find_selects), the DRAFT filter injector (ensure_draft_filter,          *)
(* build_replacement_stmt), the span editor (apply_span_replacements) and  *)
(* the endpoint remediate_array.  Texts are strings; a character is a      *)
(* string of length one, and offsets are Python's (0-based, half-open).    *)
(***************************************************************************)
EXTENDS Integers, Sequences, FiniteSets, TLC

VARIABLES
    pc,                \* where the run is
    units, results,    \* remediate_array: the units still to process, the response
    src, selects, k, replacements, selects_metadata, rewritten,
                       \* remediate_array: the locals of one pass of its unit loop
    stmt, table, pieces, out1, out2, norm1, norm2,
                       \* the injector applied to a statement typed piece by piece
    etext, edits, eout \* the span editor applied to a text and a list of edits

vars == <<pc, units, results, src, selects, k, replacements, selects_metadata,
          rewritten, stmt, table, pieces, out1, out2, norm1, norm2,
          etext, edits, eout>>

----------------------------------------------------------------------------
(* Characters and the character classes of Python's re module.             *)

Ch(s, i) == SubSeq(s, i, i)

\* s[a:b] for 0 <= a, 0 <= b: Python clamps both ends to len(s).
PySlice(s, a, b) ==
    LET hi == IF b > Len(s) THEN Len(s) ELSE b
    IN  IF a >= hi THEN "" ELSE SubSeq(s, a + 1, hi)

UpTab ==
    [c \in {"a","b","c","d","e","f","g","h","i","j","k","l","m","n","o","p",
            "q","r","s","t","u","v","w","x","y","z"} |->
        CASE c = "a" -> "A" [] c = "b" -> "B" [] c = "c" -> "C" [] c = "d" -> "D"
          [] c = "e" -> "E" [] c = "f" -> "F" [] c = "g" -> "G" [] c = "h" -> "H"
          [] c = "i" -> "I" [] c = "j" -> "J" [] c = "k" -> "K" [] c = "l" -> "L"
          [] c = "m" -> "M" [] c = "n" -> "N" [] c = "o" -> "O" [] c = "p" -> "P"
          [] c = "q" -> "Q" [] c = "r" -> "R" [] c = "s" -> "S" [] c = "t" -> "T"
          [] c = "u" -> "U" [] c = "v" -> "V" [] c = "w" -> "W" [] c = "x" -> "X"
          [] c = "y" -> "Y" [] c = "z" -> "Z"]

\* str.upper() on one character; re.IGNORECASE compares characters up to case.
Up(c) == IF c \in DOMAIN UpTab THEN UpTab[c] ELSE c

\* "".join(parts[lo..hi]), for a sequence of strings.
RECURSIVE Join(_, _, _)
Join(parts, lo, hi) ==
    IF lo > hi THEN ""
    ELSE IF lo = hi THEN parts[lo]
    ELSE LET mid == (lo + hi) \div 2
         IN  Join(parts, lo, mid) \o Join(parts, mid + 1, hi)

\* str.upper()
upper(s) == Join([i \in 1..Len(s) |-> Up(Ch(s, i))], 1, Len(s))

\* \s
IsSpace(c) == c \in {" ", "\n", "\t"}

\* \w
IsWord(c) == \/ c \in DOMAIN UpTab
             \/ c \in {"A","B","C","D","E","F","G","H","I","J","K","L","M","N","O",
                       "P","Q","R","S","T","U","V","W","X","Y","Z",
                       "0","1","2","3","4","5","6","7","8","9","_"}

\* The literal kw (given in upper case) matches s at 1-based position i,
\* ignoring case.
LitAt(s, i, kw) ==
    /\ i >= 1
    /\ i + Len(kw) - 1 <= Len(s)
    /\ \A j \in 1..Len(kw) : Up(Ch(s, i + j - 1)) = Ch(kw, j)

\* Greedy \s* and \w* from position i: the first position not in the class.
RECURSIVE SkipSpace(_, _)
SkipSpace(s, i) == IF i <= Len(s) /\ IsSpace(Ch(s, i)) THEN SkipSpace(s, i + 1) ELSE i

RECURSIVE SkipWord(_, _)
SkipWord(s, i) == IF i <= Len(s) /\ IsWord(Ch(s, i)) THEN SkipWord(s, i + 1) ELSE i

\* \b at the gap before 1-based position i.
WordBoundary(s, i) ==
    LET before == i > 1 /\ i - 1 <= Len(s) /\ IsWord(Ch(s, i - 1))
        after  == i >= 1 /\ i <= Len(s) /\ IsWord(Ch(s, i))
    IN  before # after

\* Least element of a set of positions, 0 for the empty set.
Least(S) == IF S = {} THEN 0 ELSE CHOOSE x \in S : \A y \in S : x <= y

----------------------------------------------------------------------------
(* SELECT_STAR_RE, compiled IGNORECASE | DOTALL | VERBOSE: the blanks and  *)
(* line breaks of the pattern are not part of it.  A piece of the pattern  *)
(* tried at position i gives the position after what it matched, and 0     *)
(* when it does not match or when i is 0, the failure of the piece before. *)

\* A literal.
Lit(s, i, kw) == IF i # 0 /\ LitAt(s, i, kw) THEN i + Len(kw) ELSE 0

\* \s+
Spaces1(s, i) == IF i # 0 /\ SkipSpace(s, i) > i THEN SkipSpace(s, i) ELSE 0

\* (?:SINGLE\s+)?\* : with SINGLE\s+ when it matches, and if the star does not
\* follow it, without it, where the star cannot match the S of SINGLE.
Star(s, a) ==
    IF Lit(s, Spaces1(s, Lit(s, a, "SINGLE")), "*") # 0
    THEN Lit(s, Spaces1(s, Lit(s, a, "SINGLE")), "*")
    ELSE Lit(s, a, "*")

\* SELECT\s+(?:SINGLE\s+)?\*\s+FROM\s+ : the position where the table name starts.
SelectHead(s, i) ==
    Spaces1(s, Lit(s, Spaces1(s, Star(s, Spaces1(s, Lit(s, i, "SELECT")))), "FROM"))

\* (\w+) at b: <<start, end>> of the identifier (end exclusive), <<0, 0>> when
\* there is none.
Ident(s, b) == IF b # 0 /\ SkipWord(s, b) > b THEN <<b, SkipWord(s, b)>> ELSE <<0, 0>>

\* INTO\s+TABLE\s+(?P<into_tab>\w+) at position p.
IntoTableAt(s, p) == Ident(s, Spaces1(s, Lit(s, Spaces1(s, Lit(s, p, "INTO")), "TABLE")))

\* INTO\s+(?P<into_wa>\w+) at position p.
IntoWaAt(s, p) == Ident(s, Spaces1(s, Lit(s, p, "INTO")))

\* (?P<tail>.*?)\. from position q: the first period at or after q, 0 if none.
FirstPeriod(s, q) == IF q = 0 THEN 0 ELSE Least({j \in q..Len(s) : Ch(s, j) = "."})

NoClause == [ok |-> FALSE, into_tab |-> "", into_wa |-> "", into |-> 0, period |-> 0]

\* ClauseResult with the alternatives in the other order: the INTO form first.
ClauseResult_WaFirst(s, p, tab, tper, wa, wper) ==
    IF wper # 0
    THEN [ok |-> TRUE, into_tab |-> "", into_wa |-> SubSeq(s, wa[1], wa[2] - 1),
          into |-> p, period |-> wper]
    ELSE IF tper # 0
    THEN [ok |-> TRUE, into_tab |-> SubSeq(s, tab[1], tab[2] - 1), into_wa |-> "",
          into |-> p, period |-> tper]
    ELSE NoClause

\* The alternation: the INTO TABLE form (identifier tab, period at tper) first,
\* the INTO form (identifier wa, period at wper) when that one cannot be
\* completed.  A group that takes no part in the match is "".
ClauseResult(s, p, tab, tper, wa, wper) ==
    IF tper # 0
    THEN [ok |-> TRUE, into_tab |-> SubSeq(s, tab[1], tab[2] - 1), into_wa |-> "",
          into |-> p, period |-> tper]
    ELSE IF wper # 0
    THEN [ok |-> TRUE, into_tab |-> "", into_wa |-> SubSeq(s, wa[1], wa[2] - 1),
          into |-> p, period |-> wper]
    ELSE NoClause

ClausePeriods(s, p, tab, wa) ==
    ClauseResult(s, p, tab, FirstPeriod(s, tab[2]), wa, FirstPeriod(s, wa[2]))

\* The INTO alternation followed by the tail and the period, tried at p.  A
\* shorter \w+ never helps: what it gives back holds no period.
IntoClauseAt(s, p) == ClausePeriods(s, p, IntoTableAt(s, p), IntoWaAt(s, p))

\* (?P<middle>.*?) from the end t of the table name: the least position p >= t
\* at which the INTO clause, the tail and the period match; 0 if none.  DOTALL:
\* the middle may hold any character, periods and line breaks included.
MiddleFrom(s, t) ==
    Least({p \in t..Len(s) : LitAt(s, p, "INTO") /\ IntoClauseAt(s, p).ok})

\* (?P<table>\w+) from d, where the greedy \w+ ends at e: it gives characters
\* back while the rest fails, so the table ends at the greatest t for which
\* the rest matches; 0 if none.
RECURSIVE TableEnd(_, _, _)
TableEnd(s, d, e) ==
    IF e <= d THEN 0
    ELSE IF MiddleFrom(s, e) # 0 THEN e
    ELSE TableEnd(s, d, e - 1)

NoMatch == [ok |-> FALSE]

\* The match object: group full stops before the terminating period, which
\* the match itself, and so span(0), includes.
MatchObject(s, i, d, t, cl) ==
    [ok |-> TRUE,
     full |-> SubSeq(s, i, cl.period - 1),
     table |-> SubSeq(s, d, t - 1),
     middle_end |-> cl.into,
     into_tab |-> cl.into_tab,
     into_wa |-> cl.into_wa,
     span |-> <<i - 1, cl.period>>]

MatchFromTableEnd(s, i, d, t) ==
    IF t = 0 THEN NoMatch ELSE MatchObject(s, i, d, t, IntoClauseAt(s, MiddleFrom(s, t)))

MatchFromTable(s, i, d) ==
    IF d = 0 THEN NoMatch ELSE MatchFromTableEnd(s, i, d, TableEnd(s, d, SkipWord(s, d)))

\* The match of SELECT_STAR_RE starting exactly at position i.
SELECT_STAR_RE(s, i) == MatchFromTable(s, i, SelectHead(s, i))

\* finditer: the leftmost match at or after position pos, then on from its end.
RECURSIVE finditer(_, _)
MatchesFrom(s, m) == <<m>> \o finditer(s, m.span[2] + 1)

MatchesAt(s, i) == IF i = 0 THEN <<>> ELSE MatchesFrom(s, SELECT_STAR_RE(s, i))

finditer(s, pos) ==
    MatchesAt(s, Least({i \in pos..Len(s) : LitAt(s, i, "SELECT") /\ SELECT_STAR_RE(s, i).ok}))

SelectRecords(ms) ==
    [n \in 1..Len(ms) |->
        [text |-> ms[n].full,
         table |-> ms[n].table,
         target_type |-> IF ms[n].into_tab # "" THEN "itab" ELSE "wa",
         target_name |-> IF ms[n].into_tab # "" THEN ms[n].into_tab ELSE ms[n].into_wa,
         span |-> ms[n].span]]

find_selects(txt) == SelectRecords(finditer(txt, 1))

----------------------------------------------------------------------------
(* The filter injector.                                                    *)

\* Governed with a third table.
Governed_WithMara == {"VBRK", "VBRP", "MARA"}

Governed == {"VBRK", "VBRP"}

\* HasDraftFilter with no whitespace allowed before the equals sign.
HasDraftFilter_NoBlank(s, table_up) ==
    \E i \in 1..Len(s) :
        /\ LitAt(s, i, table_up \o "-DRAFT")
        /\ LitAt(s, i + Len(table_up) + 6, "=")

\* re.search(rf"{table_up}-DRAFT\s*=\s*['\"]? ?['\"]?", sel_stmt, re.IGNORECASE):
\* everything after the equals sign is optional.
HasDraftFilter(s, table_up) ==
    \E i \in 1..Len(s) :
        /\ LitAt(s, i, table_up \o "-DRAFT")
        /\ LitAt(s, SkipSpace(s, i + Len(table_up) + 6), "=")

\* re.search(r"\bKW\b", s, re.IGNORECASE): the 1-based position of the first
\* whole-word occurrence of kw, 0 if none.
WordSearch(s, kw) ==
    Least({i \in 1..Len(s) : /\ LitAt(s, i, kw)
                             /\ WordBoundary(s, i)
                             /\ WordBoundary(s, i + Len(kw))})

\* str.rstrip(".")
RECURSIVE RStripDot(_)
RStripDot(s) ==
    IF s # "" /\ Ch(s, Len(s)) = "." THEN RStripDot(SubSeq(s, 1, Len(s) - 1)) ELSE s

\* InjectorBranch without the check for a filter already present.
InjectorBranch_NoPresentCheck(sel_stmt, tab) ==
    LET table_up == upper(tab)
    IN  IF table_up \notin Governed THEN "not_governed"
        ELSE IF WordSearch(sel_stmt, "WHERE") # 0 THEN "where"
        ELSE IF WordSearch(sel_stmt, "INTO") # 0 THEN "into"
        ELSE "append"

\* Which return statement of ensure_draft_filter is taken.
InjectorBranch(sel_stmt, tab) ==
    LET table_up == upper(tab)
    IN  IF table_up \notin Governed THEN "not_governed"
        ELSE IF HasDraftFilter(sel_stmt, table_up) THEN "present"
        ELSE IF WordSearch(sel_stmt, "WHERE") # 0 THEN "where"
        ELSE IF WordSearch(sel_stmt, "INTO") # 0 THEN "into"
        ELSE "append"

\* The return statement of branch br, with the table name written as name;
\* where_end is where_match.end() and into_start is m.start().
InsertFilter(sel_stmt, name, br, where_end, into_start) ==
    CASE br = "not_governed" -> sel_stmt
      [] br = "present" -> sel_stmt
      [] br = "where" ->
            PySlice(sel_stmt, 0, where_end) \o " " \o name \o "-DRAFT = SPACE AND"
                \o PySlice(sel_stmt, where_end, Len(sel_stmt))
      [] br = "into" ->
            PySlice(sel_stmt, 0, into_start) \o " WHERE " \o name \o "-DRAFT = SPACE "
                \o PySlice(sel_stmt, into_start, Len(sel_stmt))
      [] br = "append" ->
            RStripDot(sel_stmt) \o " WHERE " \o name \o "-DRAFT = SPACE."

\* ensure_draft_filter inserting the table name as given, not in upper case.
ensure_draft_filter_TableAsGiven(sel_stmt, tab) ==
    InsertFilter(sel_stmt, tab, InjectorBranch(sel_stmt, tab),
                 WordSearch(sel_stmt, "WHERE") - 1 + 5, WordSearch(sel_stmt, "INTO") - 1)

ensure_draft_filter(sel_stmt, tab) ==
    InsertFilter(sel_stmt, upper(tab), InjectorBranch(sel_stmt, tab),
                 WordSearch(sel_stmt, "WHERE") - 1 + 5, WordSearch(sel_stmt, "INTO") - 1)

\* re.sub(r"\s+", " ", stmt): the first character of a run of whitespace
\* becomes a blank and the others go.
CollapseSpace(s) ==
    Join([i \in 1..Len(s) |->
            IF ~IsSpace(Ch(s, i)) THEN Ch(s, i)
            ELSE IF i > 1 /\ IsSpace(Ch(s, i - 1)) THEN "" ELSE " "], 1, Len(s))

\* str.strip()
RECURSIVE RStripSpace(_)
RStripSpace(s) ==
    IF s # "" /\ IsSpace(Ch(s, Len(s))) THEN RStripSpace(SubSeq(s, 1, Len(s) - 1)) ELSE s

Strip(s) == RStripSpace(PySlice(s, SkipSpace(s, 1) - 1, Len(s)))

build_replacement_stmt(sel_text, tab, target_type, target_name) ==
    Strip(CollapseSpace(ensure_draft_filter(sel_text, tab)))

----------------------------------------------------------------------------
(* The span editor.  An edit is <<<<s, e>>, r>>.                            *)

\* sorted(repls, key=lambda x: x[0][0], reverse=True): stable, so edits with
\* the same start offset keep the order in which they were supplied.
RECURSIVE InsertByStartDesc(_, _)
InsertByStartDesc(sorted, x) ==
    IF sorted = <<>> THEN <<x>>
    ELSE IF sorted[Len(sorted)][1][1] >= x[1][1] THEN Append(sorted, x)
    ELSE Append(InsertByStartDesc(SubSeq(sorted, 1, Len(sorted) - 1), x),
                sorted[Len(sorted)])

\* SortByStartDesc that leaves the edits in the order supplied.
SortByStartDesc_AsSupplied(repls) == repls

RECURSIVE SortByStartDesc(_)
SortByStartDesc(repls) ==
    IF repls = <<>> THEN <<>>
    ELSE InsertByStartDesc(SortByStartDesc(SubSeq(repls, 1, Len(repls) - 1)),
                           repls[Len(repls)])

RECURSIVE Splice(_, _)
Splice(out, todo) ==
    IF todo = <<>> THEN out
    ELSE LET s == todo[1][1][1]
             e == todo[1][1][2]
             r == todo[1][2]
         IN  Splice(PySlice(out, 0, s) \o r \o PySlice(out, e, Len(out)), Tail(todo))

apply_span_replacements(source, repls) == Splice(source, SortByStartDesc(repls))

----------------------------------------------------------------------------
(* Bounds and the inputs drawn within them.                                *)

MaxGap == 2        \* longest run of blanks between two words of a statement
MaxFollow == 1     \* statements that follow the first one in a unit

RECURSIVE Blanks(_)
Blanks(n) == IF n = 0 THEN "" ELSE " " \o Blanks(n - 1)

Gaps == {Blanks(n) : n \in 1..MaxGap} \cup {"\n"}

Tables == {"VBRK", "MARA", "vbrp"}

\* Keywords are written in the case of the table name.
Kw(t, U, L) == IF t = upper(t) THEN U ELSE L

Heads(t, g) ==
    {Kw(t, "SELECT", "select") \o g \o "*" \o g \o Kw(t, "FROM", "from") \o g \o t,
     Kw(t, "SELECT", "select") \o g \o Kw(t, "SINGLE", "single") \o g \o "*" \o g
        \o Kw(t, "FROM", "from") \o g \o t}

Middles(t, g) ==
    {"",
     g \o Kw(t, "WHERE", "where") \o g \o "A = '1'",
     g \o Kw(t, "WHERE", "where") \o g \o "MATNR = '1'.",
     g \o Kw(t, "WHERE", "where") \o g \o t \o "-DRAFT" \o g \o "=" \o g \o "SPACE",
     g \o Kw(t, "WHERE", "where") \o g \o "X" \o t \o "-draft= ''"}

Intos(t, g) ==
    {"",
     Kw(t, "INTO", "into") \o g \o "X",
     g \o Kw(t, "INTO", "into") \o g \o "WA",
     g \o Kw(t, "INTO", "into") \o g \o Kw(t, "TABLE", "table"),
     g \o Kw(t, "INTO", "into") \o g \o Kw(t, "TABLE", "table") \o g \o "LT"}

Tails(t, g) == {"", g \o Kw(t, "WHERE", "where") \o g \o "B = 2"}

Ends == {"", "."}

FollowUps == {" SELECT * FROM VBRP INTO WA_VBRP.", "INTO TABLE LT2 ."}

RECURSIVE Follow(_)
Follow(n) == IF n = 0 THEN {""} ELSE {f \o x : f \in Follow(n - 1), x \in FollowUps \cup {""}}

\* A unit: the identifying fields and, unless it was sent without one, a code.
Unit(name, code) == [pgm_name |-> "ZPGM", inc_name |-> name, type |-> "INCLUDE", code |-> code]
UnitNoCode(name) == [pgm_name |-> "ZPGM", inc_name |-> name, type |-> "INCLUDE"]

\* The example scenarios of the specification, sent as one batch.
Examples ==
    <<Unit("E1", "SELECT * FROM VBRK INTO TABLE LT_VBRK."),
      Unit("E1P", "SELECT * FROM VBRP INTO TABLE LT_VBRP."),
      Unit("E2", "SELECT * FROM VBRK WHERE VBRK-DRAFT = SPACE INTO TABLE LT_VBRK."),
      Unit("E3", "SELECT * FROM MARA INTO TABLE LT_MARA."),
      Unit("E4", "SELECT * FROM VBRP WHERE MATNR = '1'. INTO TABLE LT."),
      Unit("E4W", "SELECT * FROM VBRP WHERE MATNR = '1' INTO TABLE LT."),
      Unit("E5", "SELECT SINGLE * FROM VBRK INTO WA_VBRK."),
      UnitNoCode("E6")>>

----------------------------------------------------------------------------
(* remediate_array: one pass of "for u in units" is BeginUnit, one          *)
(* ProcessSelect per located statement, EndUnit.                            *)

Idle ==
    /\ stmt = "" /\ table = "" /\ pieces = 0 /\ out1 = "" /\ out2 = ""
    /\ norm1 = "" /\ norm2 = "" /\ etext = "" /\ edits = <<>> /\ eout = ""

HandlerIdle ==
    /\ results = <<>>
    /\ src = "" /\ selects = <<>> /\ k = 1
    /\ replacements = <<>> /\ selects_metadata = <<>> /\ rewritten = ""

Init ==
    /\ pc = "start"
    /\ \/ units \in {<<>>, Examples}
       \/ \E t \in Tables, g \in Gaps :
             \E h \in Heads(t, g), m \in Middles(t, g), i \in Intos(t, g),
                tl \in Tails(t, g), e \in Ends, f \in Follow(MaxFollow) :
                 units = <<Unit("I1", h \o m \o i \o tl \o e \o f)>>
    /\ HandlerIdle
    /\ Idle

BeginUnit ==
    /\ pc = "start"
    /\ units # <<>>
    /\ LET u == Head(units)
           code == IF "code" \in DOMAIN u THEN u.code ELSE ""
       IN  /\ src' = code
           /\ selects' = find_selects(code)
    /\ replacements' = <<>>
    /\ selects_metadata' = <<>>
    /\ k' = 1
    /\ pc' = "select"
    /\ UNCHANGED <<units, results, rewritten, stmt, table, pieces, out1, out2,
                   norm1, norm2, etext, edits, eout>>

\* An Optional value: None, or the value wrapped.
None == <<>>
Some(x) == <<x>>

ProcessSelect ==
    /\ pc = "select"
    /\ k <= Len(selects)
    /\ LET sel      == selects[k]
           governed == upper(sel.table) \in Governed
           new_stmt == build_replacement_stmt(sel.text, sel.table,
                                              sel.target_type, sel.target_name)
           edit     == governed /\ new_stmt # sel.text
           sel_info == [table |-> sel.table,
                        target_type |-> sel.target_type,
                        target_name |-> sel.target_name,
                        start_char_in_unit |-> sel.span[1],
                        end_char_in_unit |-> sel.span[2],
                        used_fields |-> <<>>,
                        ambiguous |-> FALSE,
                        suggested_fields |-> None,
                        suggested_statement |-> IF edit THEN Some(new_stmt) ELSE None]
       IN  /\ replacements' = IF edit THEN Append(replacements, <<sel.span, new_stmt>>)
                              ELSE replacements
           /\ selects_metadata' = Append(selects_metadata, sel_info)
    /\ k' = k + 1
    /\ UNCHANGED <<pc, units, results, src, selects, rewritten, stmt, table, pieces,
                   out1, out2, norm1, norm2, etext, edits, eout>>

EndUnit ==
    /\ pc = "select"
    /\ k > Len(selects)
    /\ rewritten' = apply_span_replacements(src, replacements)
    /\ results' = Append(results, [unit |-> Head(units), selects |-> selects_metadata])
    /\ units' = Tail(units)
    /\ pc' = "start"
    /\ UNCHANGED <<src, selects, k, replacements, selects_metadata, stmt, table, pieces,
                   out1, out2, norm1, norm2, etext, edits, eout>>

Return ==
    /\ pc = "start"
    /\ units = <<>>
    /\ pc' = "returned"
    /\ UNCHANGED <<units, results, src, selects, k, replacements, selects_metadata,
                   rewritten, stmt, table, pieces, out1, out2, norm1, norm2,
                   etext, edits, eout>>

Next == BeginUnit \/ ProcessSelect \/ EndUnit \/ Return

Spec == Init /\ [][Next]_vars

----------------------------------------------------------------------------
(* The injector on its own: a statement is typed piece by piece, then       *)
(* ensure_draft_filter and build_replacement_stmt are each applied twice.   *)

MaxPieces == 3     \* pieces a typed statement is made of

Pieces(t) ==
    {"SELECT * FROM " \o t, " WHERE", "INTO", " ", "X", ".", "\n", "=",
     " " \o Kw(t, upper(t) \o "-DRAFT", t \o "-draft"), " = SPACE"}

InitInj ==
    /\ pc = "typing"
    /\ table \in Tables
    /\ stmt = "" /\ pieces = 0
    /\ out1 = "" /\ out2 = "" /\ norm1 = "" /\ norm2 = ""
    /\ etext = "" /\ edits = <<>> /\ eout = ""
    /\ units = <<>> /\ HandlerIdle

TypePiece ==
    /\ pc = "typing"
    /\ pieces < MaxPieces
    /\ \E p \in Pieces(table) : stmt' = stmt \o p
    /\ pieces' = pieces + 1
    /\ UNCHANGED <<pc, units, results, src, selects, k, replacements, selects_metadata,
                   rewritten, table, out1, out2, norm1, norm2, etext, edits, eout>>

Inject ==
    /\ pc = "typing"
    /\ out1' = ensure_draft_filter(stmt, table)
    /\ out2' = ensure_draft_filter(out1', table)
    /\ norm1' = build_replacement_stmt(stmt, table, "wa", "X")
    /\ norm2' = build_replacement_stmt(norm1', table, "wa", "X")
    /\ pc' = "injected"
    /\ UNCHANGED <<units, results, src, selects, k, replacements, selects_metadata,
                   rewritten, stmt, table, pieces, etext, edits, eout>>

NextInj == TypePiece \/ Inject

SpecInj == InitInj /\ [][NextInj]_vars

----------------------------------------------------------------------------
(* The span editor on its own: edits that do not overlap are supplied in    *)
(* any order, then apply_span_replacements is applied.                      *)

MaxTextLen == 3    \* length of the edited text
MaxEdits == 2      \* edits in one list

EditTexts == {SubSeq("abcdefgh", 1, n) : n \in 0..MaxTextLen}

Repls == {"", "X", "YZ"}

\* Two spans share no character and neither lies inside the other.
Disjoint(a, b) == a[2] <= b[1] \/ b[2] <= a[1]

InitEdit ==
    /\ pc = "editing"
    /\ etext \in EditTexts
    /\ edits = <<>> /\ eout = ""
    /\ stmt = "" /\ table = "" /\ pieces = 0
    /\ out1 = "" /\ out2 = "" /\ norm1 = "" /\ norm2 = ""
    /\ units = <<>> /\ HandlerIdle

AddEdit ==
    /\ pc = "editing"
    /\ Len(edits) < MaxEdits
    /\ \E s \in 0..Len(etext), e \in 0..Len(etext), r \in Repls :
          /\ s <= e
          /\ \A j \in 1..Len(edits) : Disjoint(<<s, e>>, edits[j][1])
          /\ edits' = Append(edits, <<<<s, e>>, r>>)
    /\ UNCHANGED <<pc, units, results, src, selects, k, replacements, selects_metadata,
                   rewritten, stmt, table, pieces, out1, out2, norm1, norm2, etext, eout>>

ApplyEdits ==
    /\ pc = "editing"
    /\ eout' = apply_span_replacements(etext, edits)
    /\ pc' = "applied"
    /\ UNCHANGED <<units, results, src, selects, k, replacements, selects_metadata,
                   rewritten, stmt, table, pieces, out1, out2, norm1, norm2, etext, edits>>

NextEdit == AddEdit \/ ApplyEdits

SpecEdit == InitEdit /\ [][NextEdit]_vars

----------------------------------------------------------------------------
(* Properties of remediate_array and of the locator, under Spec.           *)

\* The statements of the current unit for which a record has been built.
Processed == 1..Len(selects_metadata)

\* The state find_selects leaves: the statements of src located, none processed.
Located == pc = "select" /\ k = 1

\* An edit was recorded for the n-th located statement.
EditFor(n) == \E j \in 1..Len(replacements) : replacements[j][1] = selects[n].span

HasPeriod(s) == \E i \in 1..Len(s) : Ch(s, i) = "."

\* Runs of whitespace are single blanks and none starts or ends the text.
SingleSpaced(s) ==
    \A i \in 1..Len(s) :
        IsSpace(Ch(s, i)) =>
            /\ Ch(s, i) = " "
            /\ i > 1 /\ i < Len(s)
            /\ ~IsSpace(Ch(s, i + 1))

\* C1: slicing the unit's code with a located statement's span, and with the
\* start_char_in_unit and end_char_in_unit of its record, yields exactly the
\* statement's recorded text.
C1_SpanCorrect ==
    /\ \A n \in 1..Len(selects) :
          PySlice(src, selects[n].span[1], selects[n].span[2]) = selects[n].text
    /\ \A n \in Processed :
          PySlice(src, selects_metadata[n].start_char_in_unit,
                       selects_metadata[n].end_char_in_unit) = selects[n].text

\* C2: a unit whose code is "SELECT * FROM <T> INTO TABLE <dest>." with <T>
\* VBRK or VBRP gets exactly one record, with table <T>, target_type itab,
\* target_name <dest> and the suggested statement
\* "SELECT * FROM <T> WHERE <T>-DRAFT = SPACE INTO TABLE <dest>.", period included.
C2_SuggestedWithPeriod ==
    \A r \in 1..Len(results) :
      \A T \in {"VBRK", "VBRP"} :
        \A dest \in {"LT", "LT_VBRK", "LT_VBRP"} :
          LET u == results[r].unit
              recs == results[r].selects
          IN  ("code" \in DOMAIN u /\ u.code = "SELECT * FROM " \o T \o " INTO TABLE " \o dest \o ".")
              => /\ Len(recs) = 1
                 /\ recs[1].table = T
                 /\ recs[1].target_type = "itab"
                 /\ recs[1].target_name = dest
                 /\ recs[1].suggested_statement =
                       Some("SELECT * FROM " \o T \o " WHERE " \o T \o "-DRAFT = SPACE INTO TABLE "
                            \o dest \o ".")

\* C3 as stated: a located statement on VBRK or VBRP that already holds
\* <TABLE>-DRAFT followed by an equals sign gets no edit and no suggested
\* statement, whatever its whitespace or line layout.
C3_AnyLayout ==
    \A n \in Processed :
        (/\ upper(selects[n].table) \in {"VBRK", "VBRP"}
         /\ HasDraftFilter(selects[n].text, upper(selects[n].table)))
        => /\ selects_metadata[n].suggested_statement = None
           /\ ~EditFor(n)

\* C3 amended: the same, for a statement whose text is single-spaced.
C3_SingleSpaced ==
    \A n \in Processed :
        (/\ upper(selects[n].table) \in {"VBRK", "VBRP"}
         /\ HasDraftFilter(selects[n].text, upper(selects[n].table))
         /\ SingleSpaced(selects[n].text))
        => /\ selects_metadata[n].suggested_statement = None
           /\ ~EditFor(n)

C3_Witness ==
    /\ pc = "select"
    /\ \E n \in Processed :
          /\ upper(selects[n].table) \in {"VBRK", "VBRP"}
          /\ HasDraftFilter(selects[n].text, upper(selects[n].table))
          /\ SingleSpaced(selects[n].text)
          /\ WordSearch(selects[n].text, "WHERE") # 0
          /\ selects_metadata[n].suggested_statement = None

\* C4: a located statement whose table is not VBRK or VBRP, in any case of the
\* letters, still gets a record, with no suggested statement and no edit,
\* whatever its WHERE clause and whitespace; and ensure_draft_filter returns
\* its text unchanged.
C4_NonGoverned ==
    /\ pc = "select" => Len(selects_metadata) = k - 1
    /\ \A n \in Processed :
          upper(selects[n].table) \notin {"VBRK", "VBRP"}
          => /\ selects_metadata[n].table = selects[n].table
             /\ selects_metadata[n].suggested_statement = None
             /\ ~EditFor(n)
             /\ ensure_draft_filter(selects[n].text, selects[n].table) = selects[n].text

C4_Witness ==
    /\ pc = "select"
    /\ \E n \in Processed :
          /\ selects[n].table = "MARA"
          /\ WordSearch(selects[n].text, "WHERE") # 0
          /\ ~SingleSpaced(selects[n].text)
          /\ selects_metadata[n].suggested_statement = None

\* C5: no located statement holds a period between its FROM <table> and its
\* INTO clause: a SELECT whose first following period precedes every INTO
\* clause is not matched.
C5_NoPeriodBeforeInto ==
    Located =>
        LET ms == finditer(src, 1)
        IN  \A n \in 1..Len(ms) :
                ~HasPeriod(PySlice(src, ms[n].span[1], ms[n].middle_end - 1))

\* C8: for a located statement on VBRK or VBRP that lacks the filter,
\* ensure_draft_filter takes its after-WHERE or its before-INTO branch, never
\* the appending one.
C8_AppendUnreachable ==
    \A n \in 1..Len(selects) :
        (/\ upper(selects[n].table) \in {"VBRK", "VBRP"}
         /\ ~HasDraftFilter(selects[n].text, upper(selects[n].table)))
        => InjectorBranch(selects[n].text, selects[n].table) \in {"where", "into"}

\* C10: when the INTO at which a located statement's INTO clause is matched is
\* followed by whitespace, TABLE, whitespace and an identifier, the record has
\* target_type itab and that identifier as target_name; otherwise it has
\* target_type wa and the identifier right after INTO as target_name.
C10_IntoTablePriority ==
    Located =>
        LET ms == finditer(src, 1)
        IN  /\ Len(selects) = Len(ms)
            /\ \A n \in 1..Len(ms) :
                  LET tab == IntoTableAt(src, ms[n].middle_end)
                      wa  == IntoWaAt(src, ms[n].middle_end)
                  IN  IF tab[1] # 0
                      THEN /\ selects[n].target_type = "itab"
                           /\ selects[n].target_name = SubSeq(src, tab[1], tab[2] - 1)
                      ELSE /\ selects[n].target_type = "wa"
                           /\ wa[1] # 0
                           /\ selects[n].target_name = SubSeq(src, wa[1], wa[2] - 1)

C10_Witness ==
    /\ Located
    /\ Len(selects) = 2
    /\ selects[1].target_type = "itab" /\ selects[1].target_name = "LT"
    /\ ~SingleSpaced(selects[1].text)
    /\ selects[2].target_type = "wa"

----------------------------------------------------------------------------
(* Properties of the injector, under SpecInj.                              *)

\* Occurrences of the literal lit in s.
Count(s, lit) ==
    Cardinality({i \in 1..Len(s) : /\ i + Len(lit) - 1 <= Len(s)
                                   /\ SubSeq(s, i, i + Len(lit) - 1) = lit})

\* C6: ensure_draft_filter applied twice gives what it gives applied once, and
\* so does build_replacement_stmt.
C6_Idempotent ==
    pc = "injected" => /\ out2 = out1
                       /\ norm2 = norm1

C6_Witness ==
    /\ pc = "injected"
    /\ Count(stmt, "SELECT * FROM") = 1
    /\ InjectorBranch(stmt, table) = "where"
    /\ out1 # stmt
    /\ norm1 # out1
    /\ out2 = out1

\* C7: for a statement on VBRK or VBRP that does not hold <TABLE>-DRAFT followed
\* by an equals sign, the output of ensure_draft_filter holds the literal
\* "<TABLE>-DRAFT = SPACE" exactly once, whichever branch inserts it.
C7_ExactlyOneFilter ==
    (/\ pc = "injected"
     /\ upper(table) \in {"VBRK", "VBRP"}
     /\ ~HasDraftFilter(stmt, upper(table)))
    => Count(out1, upper(table) \o "-DRAFT = SPACE") = 1

C7_Witness ==
    /\ pc = "injected"
    /\ table = "vbrp"
    /\ ~HasDraftFilter(stmt, "VBRP")
    /\ Count(stmt, "vbrp-draft") = 1
    /\ WordSearch(stmt, "WHERE") = 0 /\ WordSearch(stmt, "INTO") = 0
    /\ Count(out1, "VBRP-DRAFT = SPACE") = 1

----------------------------------------------------------------------------
(* Properties of the span editor, under SpecEdit.                          *)

\* A single left-to-right pass over edits ordered by position, with a running
\* offset: delta is what the edits already applied have added to the length.
RECURSIVE LeftToRight(_, _, _)
LeftToRight(out, ordered, delta) ==
    IF ordered = <<>> THEN out
    ELSE LET s == ordered[1][1][1] + delta
             e == ordered[1][1][2] + delta
             r == ordered[1][2]
         IN  LeftToRight(SubSeq(out, 1, s) \o r \o SubSeq(out, e + 1, Len(out)),
                         Tail(ordered), delta + Len(r) - (e - s))

\* The orders of a list of edits that run from left to right.
Ascending(es) ==
    {[i \in 1..Len(es) |-> es[f[i]]] :
        f \in {g \in [1..Len(es) -> 1..Len(es)] :
                 /\ \A i, j \in 1..Len(es) : i # j => g[i] # g[j]
                 /\ \A i, j \in 1..Len(es) :
                       i < j => \/ es[g[i]][1][1] < es[g[j]][1][1]
                                \/ /\ es[g[i]][1][1] = es[g[j]][1][1]
                                   /\ es[g[i]][1][2] <= es[g[j]][1][2]}}

DistinctStarts(es) == \A i, j \in 1..Len(es) : i # j => es[i][1][1] # es[j][1][1]

\* C9 as stated: for edits whose spans do not overlap, in any order,
\* apply_span_replacements returns what a left-to-right pass with a running
\* offset returns; the empty list returns the text unchanged.
C9_AnyNonOverlapping ==
    pc = "applied" => eout \in {LeftToRight(etext, o, 0) : o \in Ascending(edits)}

\* C9 amended: the same, for edits no two of which start at the same offset.
C9_DistinctStarts ==
    (pc = "applied" /\ DistinctStarts(edits))
    => eout \in {LeftToRight(etext, o, 0) : o \in Ascending(edits)}

C9_Witness ==
    /\ pc = "applied"
    /\ Len(edits) = 2
    /\ edits[1][1][1] < edits[2][1][1]
    /\ edits[1][1][2] - edits[1][1][1] # Len(edits[1][2])
    /\ edits[2][1][2] > edits[2][1][1]
    /\ eout # etext

====
